---- MODULE Spec2Model ----
(***************************************************************************)
(* Model of transformer/Models.py: the mask builders, PositionalEncoding,  *)
(* Encoder, Decoder and Transformer (construction, weight sharing,         *)
(* forward pass).  Tensors are records [shape, data]; activations, whose   *)
(* numeric value the layers (transformer.Layers, not in this file) decide, *)
(* are records [shape, ops] where ops is the chain of operations applied.  *)
(***************************************************************************)
EXTENDS Integers, Sequences, FiniteSets, TLC

\* ---- bounds of the model -------------------------------------------------
MaxBatch == 2
MaxLen == 2
MaxTok == 2
MaxPos == 3
MaxVocab == 2
MaxDim == 2
MaxLayers == 2
MaxUpdates == 1

VARIABLES transformer, init_args, store, last_update, position_enc, call, ret, n_updates

vars == <<transformer, init_args, store, last_update, position_enc, call, ret, n_updates>>

\* ---- tensors -------------------------------------------------------------
\* index set of a tensor of rank 2 or 3 (0-based, as in torch)
Idx(shape) ==
  IF Len(shape) = 2
    THEN (0..(shape[1] - 1)) \X (0..(shape[2] - 1))
    ELSE (0..(shape[1] - 1)) \X (0..(shape[2] - 1)) \X (0..(shape[3] - 1))

\* torch broadcasting of one dimension: -1 stands for "not broadcastable"
BroadcastDim(a, b) ==
  IF a = b THEN a ELSE IF a = 1 THEN b ELSE IF b = 1 THEN a ELSE -1

Broadcastable(s1, s2) ==
  \A i \in 1..3 : BroadcastDim(s1[i], s2[i]) # -1

BroadcastShape(s1, s2) ==
  <<BroadcastDim(s1[1], s2[1]), BroadcastDim(s1[2], s2[2]), BroadcastDim(s1[3], s2[3])>>

\* the operand's element that a result index reads: size-1 dimensions are reused
BroadcastIndex(idx, s) ==
  <<IF s[1] = 1 THEN 0 ELSE idx[1],
    IF s[2] = 1 THEN 0 ELSE idx[2],
    IF s[3] = 1 THEN 0 ELSE idx[3]>>

\* seq != pad_idx, elementwise
TensorNe(seq, pad_idx) ==
  [shape |-> seq.shape,
   data  |-> [i \in Idx(seq.shape) |-> seq.data[i] # pad_idx]]

\* t.unsqueeze(-2) of a rank-2 tensor
Unsqueeze(t) ==
  [shape |-> <<t.shape[1], 1, t.shape[2]>>,
   data  |-> [i \in Idx(<<t.shape[1], 1, t.shape[2]>>) |-> t.data[<<i[1], i[3]>>]]]

\* torch.ones(shape)
Ones(shape) ==
  [shape |-> shape, data |-> [i \in Idx(shape) |-> 1]]

\* torch.triu(t, diagonal): keeps the elements with col - row >= diagonal
Triu(t, diagonal) ==
  [shape |-> t.shape,
   data  |-> [i \in Idx(t.shape) |->
                IF i[3] - i[2] >= diagonal THEN t.data[i] ELSE 0]]

\* 1 - t
OneMinus(t) ==
  [shape |-> t.shape, data |-> [i \in Idx(t.shape) |-> 1 - t.data[i]]]

\* t.bool()
ToBool(t) ==
  [shape |-> t.shape, data |-> [i \in Idx(t.shape) |-> t.data[i] # 0]]

\* a & b with broadcasting (both of rank 3)
TensorAnd(a, b) ==
  [shape |-> BroadcastShape(a.shape, b.shape),
   data  |-> [i \in Idx(BroadcastShape(a.shape, b.shape)) |->
                a.data[BroadcastIndex(i, a.shape)] /\ b.data[BroadcastIndex(i, b.shape)]]]

\* ---- mask builders -------------------------------------------------------
get_pad_mask_Inverted(seq, pad_idx) ==
  Unsqueeze([shape |-> seq.shape,
             data  |-> [i \in Idx(seq.shape) |-> seq.data[i] = pad_idx]])

get_pad_mask(seq, pad_idx) ==
  Unsqueeze(TensorNe(seq, pad_idx))

get_subsequent_mask_Strict(seq) ==
  LET len_s == seq.shape[2]
  IN  ToBool(OneMinus(Triu(Ones(<<1, len_s, len_s>>), 0)))

get_subsequent_mask(seq) ==
  LET len_s == seq.shape[2]
  IN  ToBool(OneMinus(Triu(Ones(<<1, len_s, len_s>>), 1)))

\* ---- inputs --------------------------------------------------------------
\* the (batch, length) integer tensors with ids in toks
SeqsOf(batches, lens, toks) ==
  UNION {[shape : {<<b, l>>}, data : [Idx(<<b, l>>) -> toks]] :
           b \in batches, l \in lens}

NoCall == [fn |-> "none"]
NoRet == [status |-> "none"]
NoObject == [status |-> "none"]
NoStore == [id \in {} |-> 0]

\* ---- calls of the module-level functions ---------------------------------
CallGetPadMask ==
  /\ call.fn = "none"
  /\ \E seq \in SeqsOf(1..MaxBatch, 0..MaxLen, 0..MaxTok), pad_idx \in 0..MaxTok :
       /\ call' = [fn |-> "get_pad_mask", seq0 |-> seq, seq |-> seq, pad_idx |-> pad_idx]
       /\ ret' = [status |-> "ok", value |-> get_pad_mask(seq, pad_idx)]
  /\ UNCHANGED <<transformer, init_args, store, last_update, position_enc, n_updates>>

CallGetSubsequentMask ==
  /\ call.fn = "none"
  /\ \E seq \in SeqsOf(1..MaxBatch, 0..MaxLen, 0..MaxTok) :
       /\ call' = [fn |-> "get_subsequent_mask", seq0 |-> seq, seq |-> seq]
       /\ ret' = [status |-> "ok", value |-> get_subsequent_mask(seq)]
  /\ UNCHANGED <<transformer, init_args, store, last_update, position_enc, n_updates>>

InitIdle ==
  /\ transformer = NoObject
  /\ init_args = NoCall
  /\ store = NoStore
  /\ last_update = NoCall
  /\ position_enc = NoObject
  /\ call = NoCall
  /\ ret = NoRet
  /\ n_updates = 0

NextMask == CallGetPadMask \/ CallGetSubsequentMask

SpecMask == InitIdle /\ [][NextMask]_vars

\* ---- C2 ------------------------------------------------------------------
\* C2: get_pad_mask(seq, pad_idx) of a (batch, length) tensor has shape
\* (batch, 1, length), its entry [b, 0, t] is true iff seq[b, t] != pad_idx,
\* and seq is what it was before the call.
PadMaskMatchesSeq ==
  call.fn = "get_pad_mask" =>
    /\ ret.status = "ok"
    /\ ret.value.shape = <<call.seq0.shape[1], 1, call.seq0.shape[2]>>
    /\ DOMAIN ret.value.data =
         (0..(call.seq0.shape[1] - 1)) \X {0} \X (0..(call.seq0.shape[2] - 1))
    /\ \A b \in 0..(call.seq0.shape[1] - 1), t \in 0..(call.seq0.shape[2] - 1) :
         ret.value.data[<<b, 0, t>>] = (call.seq0.data[<<b, t>>] # call.pad_idx)
    /\ call.seq = call.seq0

PadMaskWitness ==
  /\ call.fn = "get_pad_mask"
  /\ call.seq0.shape = <<2, 2>>
  /\ call.pad_idx = 1
  /\ \E i \in Idx(ret.value.shape) : ret.value.data[i]
  /\ \E i \in Idx(ret.value.shape) : ~ret.value.data[i]

\* ---- C3 ------------------------------------------------------------------
\* C3: for a sequence of length L (0 and 1 included) get_subsequent_mask
\* returns a (1, L, L) boolean mask, true at (i, j) iff j <= i, with exactly
\* L*(L+1)/2 true entries; it is a function of L alone.
SubsequentMaskLowerTriangular ==
  call.fn = "get_subsequent_mask" =>
    LET L == call.seq0.shape[2]
    IN  /\ ret.status = "ok"
        /\ ret.value.shape = <<1, L, L>>
        /\ DOMAIN ret.value.data = {0} \X (0..(L - 1)) \X (0..(L - 1))
        /\ \A i \in 0..(L - 1), j \in 0..(L - 1) :
             ret.value.data[<<0, i, j>>] = (j <= i)
        /\ 2 * Cardinality({i \in DOMAIN ret.value.data : ret.value.data[i]}) = L * (L + 1)
        /\ ret.value = [shape |-> <<1, L, L>>,
                        data  |-> [i \in {0} \X (0..(L - 1)) \X (0..(L - 1)) |-> i[3] <= i[2]]]

SubsequentMaskWitness ==
  /\ call.fn = "get_subsequent_mask"
  /\ call.seq0.shape = <<2, 2>>
  /\ Cardinality({i \in DOMAIN ret.value.data : ret.value.data[i]}) = 3

SubsequentMaskWitnessEmpty ==
  /\ call.fn = "get_subsequent_mask"
  /\ call.seq0.shape[2] = 0

\* ---- PositionalEncoding --------------------------------------------------
\* _get_sinusoid_encoding_table: entry (pos, hid_j) is sin or cos of
\* pos / 10000^(2*(hid_j // 2)/d_hid); the entry is kept as that term
SinusoidEntry(pos, hid_j) ==
  [fn |-> IF hid_j % 2 = 0 THEN "sin" ELSE "cos", pos |-> pos, i |-> hid_j \div 2]

get_sinusoid_encoding_table(n_position, d_hid) ==
  [shape |-> <<1, n_position, d_hid>>,
   data  |-> [i \in Idx(<<1, n_position, d_hid>>) |-> SinusoidEntry(i[2], i[3])]]

PositionalEncoding_init(d_hid, n_position) ==
  [status |-> "ok", pos_table |-> get_sinusoid_encoding_table(n_position, d_hid)]

Min(a, b) == IF a <= b THEN a ELSE b

\* t[:, :n] : python slicing stops at the end of the dimension
SliceRows(t, n) ==
  [shape |-> <<t.shape[1], Min(n, t.shape[2]), t.shape[3]>>,
   data  |-> [i \in Idx(<<t.shape[1], Min(n, t.shape[2]), t.shape[3]>>) |-> t.data[i]]]

\* x + self.pos_table[:, :x.size(1)]; sum names, for every element of the
\* result, the element of x and the table entry that were added
PositionalEncoding_forward(self, x) ==
  LET slice == SliceRows(self.pos_table, x.shape[2])
  IN  IF ~Broadcastable(x.shape, slice.shape)
        THEN [status |-> "RuntimeError"]
        ELSE [status |-> "ok",
              value  |-> [shape |-> BroadcastShape(x.shape, slice.shape),
                          ops   |-> Append(x.ops, "add_pos_table"),
                          sum   |-> [i \in Idx(BroadcastShape(x.shape, slice.shape)) |->
                                       [x  |-> BroadcastIndex(i, x.shape),
                                        pe |-> slice.data[BroadcastIndex(i, slice.shape)]]]]]

\* ---- weight storage ------------------------------------------------------
\* store maps a storage id to the parameter tensor kept there; a module's
\* .weight is a storage id, so two modules share a weight iff the ids agree.
\* A row's value is 0 as initialised and the stamp of the last update after.
NewStorage(st, rows, cols) ==
  [id \in (DOMAIN st) \cup {Cardinality(DOMAIN st) + 1} |->
     IF id \in DOMAIN st
       THEN st[id]
       ELSE [shape |-> <<rows, cols>>, data |-> [r \in 0..(rows - 1) |-> 0]]]

LastStorage(st) == Cardinality(DOMAIN st)

\* nn.Embedding(num_embeddings, embedding_dim, padding_idx)
Embedding_init(st, num_embeddings, embedding_dim, padding_idx) ==
  [obj   |-> [weight |-> LastStorage(NewStorage(st, num_embeddings, embedding_dim)),
              num_embeddings |-> num_embeddings,
              padding_idx |-> padding_idx],
   store |-> NewStorage(st, num_embeddings, embedding_dim)]

\* nn.Linear(in_features, out_features, bias=False): weight is (out, in)
Linear_init(st, in_features, out_features) ==
  [obj   |-> [weight |-> LastStorage(NewStorage(st, out_features, in_features))],
   store |-> NewStorage(st, out_features, in_features)]

Encoder_init(st, n_src_vocab, d_word_vec, n_layers, d_model, pad_idx, n_position, scale_emb) ==
  LET emb == Embedding_init(st, n_src_vocab, d_word_vec, pad_idx)
  IN  [obj   |-> [src_word_emb |-> emb.obj,
                  position_enc |-> PositionalEncoding_init(d_word_vec, n_position),
                  n_layers |-> n_layers,
                  scale_emb |-> scale_emb,
                  d_model |-> d_model],
       store |-> emb.store]

Decoder_init_SwappedEmbeddingArgs(st, n_trg_vocab, d_word_vec, n_layers, d_model, pad_idx, n_position, scale_emb) ==
  LET emb == Embedding_init(st, d_word_vec, n_trg_vocab, pad_idx)
  IN  [obj   |-> [trg_word_emb |-> emb.obj,
                  position_enc |-> PositionalEncoding_init(d_word_vec, n_position),
                  n_layers |-> n_layers,
                  scale_emb |-> scale_emb,
                  d_model |-> d_model],
       store |-> emb.store]

Decoder_init(st, n_trg_vocab, d_word_vec, n_layers, d_model, pad_idx, n_position, scale_emb) ==
  LET emb == Embedding_init(st, n_trg_vocab, d_word_vec, pad_idx)
  IN  [obj   |-> [trg_word_emb |-> emb.obj,
                  position_enc |-> PositionalEncoding_init(d_word_vec, n_position),
                  n_layers |-> n_layers,
                  scale_emb |-> scale_emb,
                  d_model |-> d_model],
       store |-> emb.store]

ScaleModes == {"emb", "prj", "none"}

\* scale_emb, as Transformer.__init__ computes it
ScaleEmbOf_IgnoreSharing(a) ==
  a.scale_emb_or_prj = "emb"

ScaleEmbOf(a) ==
  IF a.trg_emb_prj_weight_sharing THEN a.scale_emb_or_prj = "emb" ELSE FALSE

\* self.scale_prj
ScalePrjOf(a) ==
  IF a.trg_emb_prj_weight_sharing THEN a.scale_emb_or_prj = "prj" ELSE FALSE

\* the two weight-sharing assignments that end Transformer.__init__
ShareWeights_PrjOnly(a, obj) ==
  IF a.trg_emb_prj_weight_sharing
    THEN [obj EXCEPT !.trg_word_prj.weight = obj.decoder.trg_word_emb.weight]
    ELSE obj

ShareWeights(a, obj) ==
  LET o1 == IF a.trg_emb_prj_weight_sharing
              THEN [obj EXCEPT !.trg_word_prj.weight = obj.decoder.trg_word_emb.weight]
              ELSE obj
  IN  IF a.emb_src_trg_weight_sharing
        THEN [o1 EXCEPT !.encoder.src_word_emb.weight = o1.decoder.trg_word_emb.weight]
        ELSE o1

\* the two assertions of Transformer.__init__
ScaleModeAccepted_Any(a) == TRUE

ScaleModeAccepted(a) == a.scale_emb_or_prj \in ScaleModes

DimensionsAccepted(a) == a.d_model = a.d_word_vec

\* Transformer.__init__: [status, obj, store]; a failed assertion leaves no
\* object behind
Transformer_init(a) ==
  IF ~ScaleModeAccepted(a)
    THEN [status |-> "AssertionError"]
    ELSE
      LET enc == Encoder_init(NoStore, a.n_src_vocab, a.d_word_vec, a.n_layers, a.d_model,
                              a.src_pad_idx, a.n_position, ScaleEmbOf(a))
          dec == Decoder_init(enc.store, a.n_trg_vocab, a.d_word_vec, a.n_layers, a.d_model,
                              a.trg_pad_idx, a.n_position, ScaleEmbOf(a))
          prj == Linear_init(dec.store, a.d_model, a.n_trg_vocab)
          obj == [src_pad_idx |-> a.src_pad_idx,
                  trg_pad_idx |-> a.trg_pad_idx,
                  scale_prj |-> ScalePrjOf(a),
                  d_model |-> a.d_model,
                  encoder |-> enc.obj,
                  decoder |-> dec.obj,
                  trg_word_prj |-> prj.obj]
      IN  IF ~DimensionsAccepted(a)
            THEN [status |-> "AssertionError"]
            ELSE [status |-> "ok", obj |-> ShareWeights(a, obj), store |-> prj.store]

\* ---- forward passes ------------------------------------------------------
\* nn.Embedding.forward: a row of the weight per id; an id with no row fails
Embedding_forward(emb, st, seq, name) ==
  IF \E i \in Idx(seq.shape) : seq.data[i] >= st[emb.weight].shape[1]
    THEN [status |-> "IndexError"]
    ELSE [status |-> "ok",
          value  |-> [shape |-> <<seq.shape[1], seq.shape[2], st[emb.weight].shape[2]>>,
                      ops   |-> <<name>>]]

\* an activation after one more operation that keeps its shape
Then(x, op) == [shape |-> x.shape, ops |-> Append(x.ops, op)]

\* x *= self.d_model ** 0.5, when scale_emb
ScaleEmbedding(scale_emb, x) ==
  IF scale_emb THEN Then(x, "mul_sqrt_d_model") ELSE x

\* the loop over self.layer_stack of Encoder.forward, from layer i on:
\* [out, attns, calls], calls being what each layer was called with
RECURSIVE EncoderLayers(_, _, _, _, _, _, _)
EncoderLayers(i, n_layers, enc_output, src_mask, return_attns, attns, calls) ==
  IF i > n_layers
    THEN [out |-> enc_output, attns |-> attns, calls |-> calls]
    ELSE EncoderLayers(
           i + 1, n_layers, Then(enc_output, "enc_layer"), src_mask, return_attns,
           attns \o (IF return_attns THEN <<[kind |-> "enc_slf_attn", layer |-> i]>> ELSE <<>>),
           Append(calls, [layer |-> i, enc_input |-> enc_output, slf_attn_mask |-> src_mask]))

\* what Encoder.forward returns, given the output of the layer loop
EncoderReturn_Always(r, return_attns) == <<r.out, r.attns>>

EncoderReturn(r, return_attns) ==
  IF return_attns THEN <<r.out, r.attns>> ELSE <<r.out>>

Encoder_forward(self, st, src_seq, src_mask, return_attns) ==
  LET emb == Embedding_forward(self.src_word_emb, st, src_seq, "src_word_emb")
  IN  IF emb.status # "ok" THEN [status |-> emb.status]
      ELSE
        LET pos == PositionalEncoding_forward(self.position_enc,
                                              ScaleEmbedding(self.scale_emb, emb.value))
        IN  IF pos.status # "ok" THEN [status |-> pos.status]
            ELSE
              LET x0 == Then(Then([shape |-> pos.value.shape, ops |-> pos.value.ops],
                                  "dropout"), "layer_norm")
                  r  == EncoderLayers(1, self.n_layers, x0, src_mask, return_attns, <<>>, <<>>)
              IN  [status |-> "ok",
                   value  |-> EncoderReturn(r, return_attns),
                   calls  |-> r.calls]

\* the loop over self.layer_stack of Decoder.forward, from layer i on
RECURSIVE DecoderLayers(_, _, _, _, _, _, _, _, _, _)
DecoderLayers(i, n_layers, dec_output, enc_output, trg_mask, src_mask, return_attns, slf_attns, enc_attns, calls) ==
  IF i > n_layers
    THEN [out |-> dec_output, slf_attns |-> slf_attns, enc_attns |-> enc_attns,
          calls |-> calls]
    ELSE DecoderLayers(
           i + 1, n_layers, Then(dec_output, "dec_layer"), enc_output, trg_mask, src_mask,
           return_attns,
           slf_attns \o (IF return_attns THEN <<[kind |-> "dec_slf_attn", layer |-> i]>> ELSE <<>>),
           enc_attns \o (IF return_attns THEN <<[kind |-> "dec_enc_attn", layer |-> i]>> ELSE <<>>),
           Append(calls, [layer |-> i, dec_input |-> dec_output, enc_output |-> enc_output,
                          slf_attn_mask |-> trg_mask, dec_enc_attn_mask |-> src_mask]))

DecoderReturn(r, return_attns) ==
  IF return_attns THEN <<r.out, r.slf_attns, r.enc_attns>> ELSE <<r.out>>

Decoder_forward(self, st, trg_seq, trg_mask, enc_output, src_mask, return_attns) ==
  LET emb == Embedding_forward(self.trg_word_emb, st, trg_seq, "trg_word_emb")
  IN  IF emb.status # "ok" THEN [status |-> emb.status]
      ELSE
        LET pos == PositionalEncoding_forward(self.position_enc,
                                              ScaleEmbedding(self.scale_emb, emb.value))
        IN  IF pos.status # "ok" THEN [status |-> pos.status]
            ELSE
              LET x0 == Then(Then([shape |-> pos.value.shape, ops |-> pos.value.ops],
                                  "dropout"), "layer_norm")
                  r  == DecoderLayers(1, self.n_layers, x0, enc_output, trg_mask, src_mask,
                                      return_attns, <<>>, <<>>, <<>>)
              IN  [status |-> "ok",
                   value  |-> DecoderReturn(r, return_attns),
                   calls  |-> r.calls]

\* nn.Linear.forward without bias: the last dimension becomes the weight's rows
Linear_forward(lin, st, x) ==
  IF x.shape[3] # st[lin.weight].shape[2]
    THEN [status |-> "RuntimeError"]
    ELSE [status |-> "ok",
          value  |-> [shape |-> <<x.shape[1], x.shape[2], st[lin.weight].shape[1]>>,
                      ops   |-> Append(x.ops, "trg_word_prj")]]

\* seq_logit *= self.d_model ** -0.5, when scale_prj
ScaleLogits(scale_prj, x) ==
  IF scale_prj THEN Then(x, "mul_rsqrt_d_model") ELSE x

\* the index, in a contiguous tensor of this shape, of the element at an offset
UnravelColumnMajor(offset, shape) ==
  <<offset % shape[1], (offset \div shape[1]) % shape[2],
    offset \div (shape[1] * shape[2])>>

Unravel(offset, shape) ==
  <<offset \div (shape[2] * shape[3]), (offset \div shape[3]) % shape[2],
    offset % shape[3]>>

\* x.view(-1, cols) of a contiguous rank-3 tensor; elem names, for each
\* element of the view, the element of x it is
View(x, cols) ==
  LET numel == x.shape[1] * x.shape[2] * x.shape[3]
  IN  IF cols = 0 \/ numel % cols # 0
        THEN [status |-> "RuntimeError"]
        ELSE [status |-> "ok",
              value  |-> [shape |-> <<numel \div cols, cols>>,
                          ops   |-> x.ops,
                          elem  |-> [i \in Idx(<<numel \div cols, cols>>) |->
                                       Unravel(i[1] * cols + i[2], x.shape)]]]

\* trg_mask as Transformer.forward builds it
TargetMask_PadOnly(trg_seq, trg_pad_idx) ==
  get_pad_mask(trg_seq, trg_pad_idx)

TargetMask(trg_seq, trg_pad_idx) ==
  TensorAnd(get_pad_mask(trg_seq, trg_pad_idx), get_subsequent_mask(trg_seq))

\* Transformer.forward; besides the value, the record keeps the masks built,
\* the encoder output and what the layers were called with
Transformer_forward(self, st, src_seq, trg_seq) ==
  LET src_mask == get_pad_mask(src_seq, self.src_pad_idx)
      trg_mask == TargetMask(trg_seq, self.trg_pad_idx)
      enc == Encoder_forward(self.encoder, st, src_seq, src_mask, FALSE)
  IN  IF enc.status # "ok" THEN [status |-> enc.status, at |-> "encoder"]
      ELSE
        LET dec == Decoder_forward(self.decoder, st, trg_seq, trg_mask, enc.value[1],
                                   src_mask, FALSE)
        IN  IF dec.status # "ok" THEN [status |-> dec.status, at |-> "decoder"]
            ELSE
              LET prj == Linear_forward(self.trg_word_prj, st, dec.value[1])
              IN  IF prj.status # "ok" THEN [status |-> prj.status, at |-> "trg_word_prj"]
                  ELSE
                    LET seq_logit == ScaleLogits(self.scale_prj, prj.value)
                        out == View(seq_logit, seq_logit.shape[3])
                    IN  IF out.status # "ok" THEN [status |-> out.status, at |-> "view"]
                        ELSE [status |-> "ok",
                              value |-> out.value,
                              src_mask |-> src_mask,
                              trg_mask |-> trg_mask,
                              enc_output |-> enc.value[1],
                              seq_logit |-> seq_logit,
                              enc_calls |-> enc.calls,
                              dec_calls |-> dec.calls]

\* ---- construction, weight updates and forward calls ----------------------
\* the arguments Transformer is constructed with; "embedding" stands for any
\* selector that is none of the three legal ones
ConstructorArgs ==
  [n_src_vocab : 1..MaxVocab, n_trg_vocab : 1..MaxVocab,
   src_pad_idx : {0}, trg_pad_idx : {0},
   d_word_vec : 1..MaxDim, d_model : 1..MaxDim,
   n_layers : {1}, n_position : {MaxLen},
   trg_emb_prj_weight_sharing : BOOLEAN, emb_src_trg_weight_sharing : BOOLEAN,
   scale_emb_or_prj : ScaleModes \cup {"embedding"}]

Construct ==
  /\ transformer.status = "none"
  /\ \E a \in ConstructorArgs :
       LET r == Transformer_init(a)
       IN  /\ init_args' = a
           /\ transformer' = IF r.status = "ok" THEN [status |-> "ok", obj |-> r.obj]
                                                ELSE [status |-> r.status]
           /\ store' = IF r.status = "ok" THEN r.store ELSE NoStore
  /\ UNCHANGED <<last_update, position_enc, call, ret, n_updates>>

Handles == {"src_word_emb", "trg_word_emb", "trg_word_prj"}

\* the storage a module's .weight names
WeightOf(obj, h) ==
  IF h = "src_word_emb" THEN obj.encoder.src_word_emb.weight
  ELSE IF h = "trg_word_emb" THEN obj.decoder.trg_word_emb.weight
  ELSE obj.trg_word_prj.weight

\* the table read through a module's .weight
TableOf(obj, st, h) == st[WeightOf(obj, h)].data

\* an in-place update of one row of a weight, as the optimizer does through
\* the parameter it holds
UpdateWeight ==
  /\ transformer.status = "ok"
  /\ n_updates < MaxUpdates
  /\ \E h \in Handles :
       \E row \in 0..(store[WeightOf(transformer.obj, h)].shape[1] - 1) :
         /\ store' = [store EXCEPT ![WeightOf(transformer.obj, h)].data[row] = n_updates + 1]
         /\ last_update' = [fn |-> "update", handle |-> h, row |-> row,
                            before |-> [g \in Handles |-> TableOf(transformer.obj, store, g)]]
  /\ n_updates' = n_updates + 1
  /\ UNCHANGED <<transformer, init_args, position_enc, call, ret>>

\* a forward pass on one source and one target sequence of valid ids
CallForwardOne ==
  /\ transformer.status = "ok"
  /\ call.fn = "none"
  /\ \E src_seq \in SeqsOf({1}, {1}, 0..(init_args.n_src_vocab - 1)),
        trg_seq \in SeqsOf({1}, {1}, 0..(init_args.n_trg_vocab - 1)) :
       /\ call' = [fn |-> "Transformer.forward", src_seq |-> src_seq, trg_seq |-> trg_seq]
       /\ ret' = Transformer_forward(transformer.obj, store, src_seq, trg_seq)
  /\ UNCHANGED <<transformer, init_args, store, last_update, position_enc, n_updates>>

Init == InitIdle

Next == Construct \/ UpdateWeight \/ CallForwardOne

Spec == Init /\ [][Next]_vars

\* ---- C4 ------------------------------------------------------------------
\* what the two switches say about two of the three tables being one table
SharedBySwitches(a, h1, h2) ==
  \/ h1 = h2
  \/ /\ {h1, h2} = {"trg_word_emb", "trg_word_prj"}
     /\ a.trg_emb_prj_weight_sharing
  \/ /\ {h1, h2} = {"src_word_emb", "trg_word_emb"}
     /\ a.emb_src_trg_weight_sharing
  \/ /\ {h1, h2} = {"src_word_emb", "trg_word_prj"}
     /\ a.trg_emb_prj_weight_sharing
     /\ a.emb_src_trg_weight_sharing

\* C4: after construction and after any in-place updates, two of the tables
\* (source embedding, target embedding, output projection) are the same
\* storage exactly when the switches say so, and an update through one is
\* seen through another exactly when the two are the same storage.
WeightSharingFollowsSwitches ==
  transformer.status = "ok" =>
    /\ \A h1 \in Handles, h2 \in Handles :
         (WeightOf(transformer.obj, h1) = WeightOf(transformer.obj, h2))
           <=> SharedBySwitches(init_args, h1, h2)
    /\ last_update.fn = "update" =>
         \A g \in Handles :
           (TableOf(transformer.obj, store, g) # last_update.before[g])
             <=> SharedBySwitches(init_args, last_update.handle, g)

WeightSharingWitnessAll ==
  /\ transformer.status = "ok"
  /\ init_args.trg_emb_prj_weight_sharing
  /\ init_args.emb_src_trg_weight_sharing
  /\ last_update.fn = "update"
  /\ last_update.handle = "trg_word_prj"
  /\ TableOf(transformer.obj, store, "src_word_emb") # last_update.before["src_word_emb"]

\* ---- C5 ------------------------------------------------------------------
\* the indices of a chain of operations at which an operation occurs
Occurrences(ops, op) == {k \in 1..Len(ops) : ops[k] = op}

\* C5: without target-embedding/projection sharing nothing is scaled; with
\* it, 'emb' scales the embeddings right after lookup in Encoder and Decoder
\* and not the logits, 'prj' scales the logits right after the projection and
\* not the embeddings, 'none' scales nothing; never both.
ScalingPlaceFollowsSelector ==
  (call.fn = "Transformer.forward" /\ ret.status = "ok") =>
    LET emb_scaled == init_args.trg_emb_prj_weight_sharing
                        /\ init_args.scale_emb_or_prj = "emb"
        prj_scaled == init_args.trg_emb_prj_weight_sharing
                        /\ init_args.scale_emb_or_prj = "prj"
        enc_ops == ret.enc_output.ops
        dec_ops == ret.seq_logit.ops
    IN  /\ enc_ops[1] = "src_word_emb"
        /\ dec_ops[1] = "trg_word_emb"
        /\ Occurrences(enc_ops, "mul_sqrt_d_model") = IF emb_scaled THEN {2} ELSE {}
        /\ Occurrences(dec_ops, "mul_sqrt_d_model") = IF emb_scaled THEN {2} ELSE {}
        /\ Occurrences(enc_ops, "mul_rsqrt_d_model") = {}
        /\ Occurrences(dec_ops, "mul_rsqrt_d_model") =
             IF prj_scaled THEN {Len(dec_ops)} ELSE {}
        /\ prj_scaled => dec_ops[Len(dec_ops) - 1] = "trg_word_prj"
        /\ ~prj_scaled => dec_ops[Len(dec_ops)] = "trg_word_prj"
        /\ ~(Occurrences(enc_ops \o dec_ops, "mul_sqrt_d_model") # {}
               /\ Occurrences(dec_ops, "mul_rsqrt_d_model") # {})

ScalingWitnessEmb ==
  /\ call.fn = "Transformer.forward"
  /\ ret.status = "ok"
  /\ init_args.trg_emb_prj_weight_sharing
  /\ init_args.scale_emb_or_prj = "emb"
  /\ ret.enc_output.ops[2] = "mul_sqrt_d_model"

ScalingWitnessPrj ==
  /\ call.fn = "Transformer.forward"
  /\ ret.status = "ok"
  /\ init_args.scale_emb_or_prj = "prj"
  /\ "mul_rsqrt_d_model" = ret.seq_logit.ops[Len(ret.seq_logit.ops)]

ScalingWitnessUnshared ==
  /\ call.fn = "Transformer.forward"
  /\ ret.status = "ok"
  /\ ~init_args.trg_emb_prj_weight_sharing
  /\ init_args.scale_emb_or_prj = "emb"

\* ---- C6 ------------------------------------------------------------------
\* C6: construction fails, leaving no model, exactly when the selector is not
\* one of 'emb', 'prj', 'none' or d_word_vec differs from d_model; an illegal
\* value is never turned into a legal one.
ConstructionFailsOnBadConfig ==
  init_args # NoCall =>
    LET legal == init_args.scale_emb_or_prj \in {"emb", "prj", "none"}
                   /\ init_args.d_word_vec = init_args.d_model
    IN  /\ legal => transformer.status = "ok"
        /\ ~legal => /\ transformer.status = "AssertionError"
                     /\ DOMAIN transformer = {"status"}
                     /\ store = NoStore

ConstructionFailsWitnessMode ==
  /\ transformer.status = "AssertionError"
  /\ init_args.scale_emb_or_prj = "embedding"
  /\ init_args.d_word_vec = init_args.d_model

ConstructionFailsWitnessDim ==
  /\ transformer.status = "AssertionError"
  /\ init_args.scale_emb_or_prj = "prj"
  /\ init_args.d_word_vec # init_args.d_model

\* ---- C10 -----------------------------------------------------------------
\* C10: with source/target embedding sharing, whatever the two vocabulary
\* sizes, the encoder's embedding table has a row for every id below
\* n_src_vocab and a forward pass on such ids never indexes past its end.
SharedSourceTableCoversSourceVocab ==
  (transformer.status = "ok" /\ init_args.emb_src_trg_weight_sharing) =>
    /\ store[transformer.obj.encoder.src_word_emb.weight].shape[1] >= init_args.n_src_vocab
    /\ call.fn = "Transformer.forward" => ret.status # "IndexError"

\* C10 as amended: the same, for n_src_vocab <= n_trg_vocab.
SharedSourceTableCoversSmallerSourceVocab ==
  (transformer.status = "ok" /\ init_args.emb_src_trg_weight_sharing
     /\ init_args.n_src_vocab <= init_args.n_trg_vocab) =>
    /\ store[transformer.obj.encoder.src_word_emb.weight].shape[1] >= init_args.n_src_vocab
    /\ call.fn = "Transformer.forward" => ret.status # "IndexError"

SharedSourceTableWitness ==
  /\ transformer.status = "ok"
  /\ init_args.emb_src_trg_weight_sharing
  /\ init_args.n_src_vocab < init_args.n_trg_vocab
  /\ call.fn = "Transformer.forward"
  /\ call.src_seq.data[<<0, 0>>] = init_args.n_src_vocab - 1
  /\ ret.status = "ok"

\* ---- forward passes of a constructed model -------------------------------
\* legal constructions the forward passes below are run on
ForwardArgs ==
  [n_src_vocab : {MaxTok + 1}, n_trg_vocab : {MaxTok + 1},
   src_pad_idx : {0}, trg_pad_idx : {0, MaxTok},
   d_word_vec : {MaxDim}, d_model : {MaxDim},
   n_layers : 0..MaxLayers, n_position : {MaxLen},
   trg_emb_prj_weight_sharing : {TRUE}, emb_src_trg_weight_sharing : {TRUE},
   scale_emb_or_prj : {"emb", "prj"}]

InitConstructed ==
  /\ init_args \in ForwardArgs
  /\ transformer = [status |-> "ok", obj |-> Transformer_init(init_args).obj]
  /\ store = Transformer_init(init_args).store
  /\ last_update = NoCall
  /\ position_enc = NoObject
  /\ call = NoCall
  /\ ret = NoRet
  /\ n_updates = 0

\* batches of sequences made of the two ids that may be the pad index
PadOrTokenSeqs == SeqsOf({1, MaxBatch}, 1..MaxLen, {0, MaxTok})

\* a batch of source sequences without padding
FullSeq(batch, len) ==
  [shape |-> <<batch, len>>, data |-> [i \in Idx(<<batch, len>>) |-> MaxTok]]

CallForward ==
  /\ transformer.status = "ok"
  /\ call.fn = "none"
  /\ \E trg_seq \in PadOrTokenSeqs, src_len \in 1..MaxLen :
       LET src_seq == FullSeq(trg_seq.shape[1], src_len)
       IN  /\ call' = [fn |-> "Transformer.forward", src_seq |-> src_seq, trg_seq |-> trg_seq]
           /\ ret' = Transformer_forward(transformer.obj, store, src_seq, trg_seq)
  /\ UNCHANGED <<transformer, init_args, store, last_update, position_enc, n_updates>>

CallEncoder ==
  /\ transformer.status = "ok"
  /\ call.fn = "none"
  /\ \E src_seq \in PadOrTokenSeqs, return_attns \in BOOLEAN :
       LET src_mask == get_pad_mask(src_seq, transformer.obj.src_pad_idx)
       IN  /\ call' = [fn |-> "Encoder.forward", src_seq |-> src_seq, src_mask |-> src_mask,
                       return_attns |-> return_attns]
           /\ ret' = Encoder_forward(transformer.obj.encoder, store, src_seq, src_mask,
                                     return_attns)
  /\ UNCHANGED <<transformer, init_args, store, last_update, position_enc, n_updates>>

CallDecoder ==
  /\ transformer.status = "ok"
  /\ call.fn = "none"
  /\ \E trg_seq \in PadOrTokenSeqs, src_len \in 1..MaxLen, return_attns \in BOOLEAN :
       LET src_seq == FullSeq(trg_seq.shape[1], src_len)
           src_mask == get_pad_mask(src_seq, transformer.obj.src_pad_idx)
           trg_mask == TargetMask(trg_seq, transformer.obj.trg_pad_idx)
           enc_output == Encoder_forward(transformer.obj.encoder, store, src_seq, src_mask,
                                         FALSE).value[1]
       IN  /\ call' = [fn |-> "Decoder.forward", trg_seq |-> trg_seq, trg_mask |-> trg_mask,
                       enc_output |-> enc_output, src_mask |-> src_mask,
                       return_attns |-> return_attns]
           /\ ret' = Decoder_forward(transformer.obj.decoder, store, trg_seq, trg_mask,
                                     enc_output, src_mask, return_attns)
  /\ UNCHANGED <<transformer, init_args, store, last_update, position_enc, n_updates>>

NextForward == CallForward \/ CallEncoder \/ CallDecoder

SpecForward == InitConstructed /\ [][NextForward]_vars

\* ---- C1 ------------------------------------------------------------------
\* C1: the mask Transformer.forward builds from trg_seq and trg_pad_idx has
\* shape (batch, length, length), is the elementwise AND of the padding mask
\* and the subsequent mask, so entry (b, i, j) is true iff
\* trg_seq[b, j] != trg_pad_idx and j <= i, and it is the self-attention
\* mask every decoder layer is called with.
TargetMaskIsPadAndCausal ==
  (call.fn = "Transformer.forward" /\ ret.status = "ok") =>
    LET B == call.trg_seq.shape[1]
        L == call.trg_seq.shape[2]
        pad == get_pad_mask(call.trg_seq, init_args.trg_pad_idx)
        sub == get_subsequent_mask(call.trg_seq)
    IN  /\ ret.trg_mask.shape = <<B, L, L>>
        /\ DOMAIN ret.trg_mask.data = Idx(<<B, L, L>>)
        /\ \A b \in 0..(B - 1), i \in 0..(L - 1), j \in 0..(L - 1) :
             /\ ret.trg_mask.data[<<b, i, j>>]
                  = (call.trg_seq.data[<<b, j>>] # init_args.trg_pad_idx /\ j <= i)
             /\ ret.trg_mask.data[<<b, i, j>>]
                  = (pad.data[<<b, 0, j>>] /\ sub.data[<<0, i, j>>])
        /\ Len(ret.dec_calls) = init_args.n_layers
        /\ \A k \in 1..Len(ret.dec_calls) : ret.dec_calls[k].slf_attn_mask = ret.trg_mask

TargetMaskWitness ==
  /\ call.fn = "Transformer.forward"
  /\ ret.status = "ok"
  /\ call.trg_seq.shape = <<2, 2>>
  /\ Len(ret.dec_calls) = 2
  /\ ~ret.trg_mask.data[<<0, 1, 1>>]
  /\ ret.trg_mask.data[<<1, 1, 1>>]
  /\ ~ret.trg_mask.data[<<1, 0, 1>>]

\* ---- C8 ------------------------------------------------------------------
\* C8: Transformer.forward returns batch*trg_len rows of n_trg_vocab
\* columns, row b*trg_len + t being the logits of batch element b at target
\* position t; the source length plays no part.
LogitsFlattenedBatchMajor ==
  (call.fn = "Transformer.forward" /\ ret.status = "ok") =>
    LET B == call.trg_seq.shape[1]
        T == call.trg_seq.shape[2]
        V == init_args.n_trg_vocab
    IN  /\ ret.seq_logit.shape = <<B, T, V>>
        /\ ret.value.shape = <<B * T, V>>
        /\ DOMAIN ret.value.elem = Idx(<<B * T, V>>)
        /\ \A b \in 0..(B - 1), t \in 0..(T - 1), v \in 0..(V - 1) :
             ret.value.elem[<<b * T + t, v>>] = <<b, t, v>>

LogitsFlattenedWitness ==
  /\ call.fn = "Transformer.forward"
  /\ ret.status = "ok"
  /\ call.trg_seq.shape = <<2, 2>>
  /\ call.src_seq.shape = <<2, 1>>
  /\ ret.value.shape[1] = 4
  /\ ret.value.elem[<<3, 1>>] = <<1, 1, 1>>

\* ---- C9 ------------------------------------------------------------------
\* C9: Encoder.forward and Decoder.forward return the same primary output
\* for return_attns false and true; with true the Encoder returns one list of
\* n_layers self-attention entries and the Decoder one list of n_layers
\* self-attention and one of n_layers cross-attention entries, in layer
\* order; with false no list is returned.
ReturnAttnsOnlyAddsLists ==
  /\ (call.fn = "Encoder.forward" /\ ret.status = "ok") =>
       LET other == Encoder_forward(transformer.obj.encoder, store, call.src_seq,
                                    call.src_mask, ~call.return_attns)
           n == init_args.n_layers
       IN  /\ other.status = "ok"
           /\ ret.value[1] = other.value[1]
           /\ ret.calls = other.calls
           /\ ~call.return_attns => Len(ret.value) = 1
           /\ call.return_attns =>
                /\ Len(ret.value) = 2
                /\ ret.value[2] = [k \in 1..n |-> [kind |-> "enc_slf_attn", layer |-> k]]
  /\ (call.fn = "Decoder.forward" /\ ret.status = "ok") =>
       LET other == Decoder_forward(transformer.obj.decoder, store, call.trg_seq,
                                    call.trg_mask, call.enc_output, call.src_mask,
                                    ~call.return_attns)
           n == init_args.n_layers
       IN  /\ other.status = "ok"
           /\ ret.value[1] = other.value[1]
           /\ ret.calls = other.calls
           /\ ~call.return_attns => Len(ret.value) = 1
           /\ call.return_attns =>
                /\ Len(ret.value) = 3
                /\ ret.value[2] = [k \in 1..n |-> [kind |-> "dec_slf_attn", layer |-> k]]
                /\ ret.value[3] = [k \in 1..n |-> [kind |-> "dec_enc_attn", layer |-> k]]

ReturnAttnsWitnessDecoder ==
  /\ call.fn = "Decoder.forward"
  /\ ret.status = "ok"
  /\ call.return_attns
  /\ Len(ret.value) = 3
  /\ Len(ret.value[2]) = 2
  /\ Len(ret.value[3]) = 2

ReturnAttnsWitnessEncoder ==
  /\ call.fn = "Encoder.forward"
  /\ ret.status = "ok"
  /\ ~call.return_attns
  /\ init_args.n_layers = 2

\* the activations PositionalEncoding.forward is given by Encoder and Decoder
EmbeddingOps ==
  {<<"src_word_emb">>, <<"src_word_emb", "mul_sqrt_d_model">>,
   <<"trg_word_emb">>, <<"trg_word_emb", "mul_sqrt_d_model">>}

ConstructPositionalEncoding ==
  /\ position_enc.status = "none"
  /\ \E d_hid \in 1..MaxDim, n_position \in 1..MaxPos :
       position_enc' = PositionalEncoding_init(d_hid, n_position)
  /\ UNCHANGED <<transformer, init_args, store, last_update, call, ret, n_updates>>

CallPositionalEncodingForward ==
  /\ position_enc.status = "ok"
  /\ call.fn = "none"
  /\ \E b \in 1..MaxBatch, l \in 0..(MaxPos + 1), ops \in EmbeddingOps :
       LET x == [shape |-> <<b, l, position_enc.pos_table.shape[3]>>, ops |-> ops]
       IN  /\ call' = [fn |-> "PositionalEncoding.forward", x |-> x]
           /\ ret' = PositionalEncoding_forward(position_enc, x)
  /\ UNCHANGED <<transformer, init_args, store, last_update, position_enc, n_updates>>

NextPos == ConstructPositionalEncoding \/ CallPositionalEncodingForward

SpecPos == InitIdle /\ [][NextPos]_vars

\* ---- C7 ------------------------------------------------------------------
\* C7: for max_positions >= 1, an input of length <= max_positions gets
\* x + table[:, :length], position t receiving table row t; an input of
\* length > max_positions gets an error, never a result that truncates the
\* input or reuses table rows.
PositionalEncodingInBoundsOrError ==
  call.fn = "PositionalEncoding.forward" =>
    LET x == call.x
        n_position == position_enc.pos_table.shape[2]
    IN  IF x.shape[2] <= n_position
          THEN /\ ret.status = "ok"
               /\ ret.value.shape = x.shape
               /\ DOMAIN ret.value.sum = Idx(x.shape)
               /\ \A i \in Idx(x.shape) :
                    /\ ret.value.sum[i].x = i
                    /\ ret.value.sum[i].pe = position_enc.pos_table.data[<<0, i[2], i[3]>>]
          ELSE ret.status # "ok"

\* the part of C7 the code satisfies: inputs that fit the table
PositionalEncodingInBounds ==
  (call.fn = "PositionalEncoding.forward"
     /\ call.x.shape[2] <= position_enc.pos_table.shape[2]) =>
    /\ ret.status = "ok"
    /\ ret.value.shape = call.x.shape
    /\ \A i \in Idx(call.x.shape) :
         /\ ret.value.sum[i].x = i
         /\ ret.value.sum[i].pe = position_enc.pos_table.data[<<0, i[2], i[3]>>]

\* a table of more than one row does reject longer inputs
PositionalEncodingTooLongRejected ==
  (call.fn = "PositionalEncoding.forward"
     /\ position_enc.pos_table.shape[2] > 1
     /\ call.x.shape[2] > position_enc.pos_table.shape[2]) =>
    ret.status = "RuntimeError"

====
